---- MODULE Spec2Model ----
(***************************************************************************)
(* Model of the single-process ledger of src/Blockchain.py: the chain, the *)
(* open transactions (mempool), the participants, the JSON file            *)
(* data/blockchain.json and the main program loop, together with           *)
(* src/verification.py, src/block.py, src/transaction.py, src/hash_util.py.*)
(*                                                                         *)
(* Abstractions.                                                           *)
(*  - Bytes are small naturals (Ord); json.dumps(..., sort_keys=True) is    *)
(*    the sequence of the values in sorted-key order with the JSON        *)
(*    punctuation, the fixed key names being left out.                     *)
(*  - SHA-256 is a deterministic two-lane multiplicative fold; a digest is *)
(*    a hex string of 8 digits instead of 64 and the difficulty is one     *)
(*    leading zero digit instead of four.                                  *)
(*  - Amounts are integers.  A float timestamp is a natural counting       *)
(*    quarters of a second; format(t, '.10f') keeps one decimal instead of *)
(*    ten (like the real one it rounds, and float() recovers the value).   *)
(*  - time() returns any of the values of Times.                            *)
(***************************************************************************)
EXTENDS Integers, Sequences, FiniteSets, TLC

\* ------------------------------------------------------------------ bounds
MaxBlocks == 3
MaxPool == 2
MaxRestarts == 1
MaxTimestamp == 40
MaxClock == 30

\* --------------------------------------------------------------- constants
owner == "Kdhungel"
MINING_REWARD == 10

\* Identifiers and amounts typed at the prompts of get_transaction_amount;
\* the recipient typed is another identifier than the sender.
Users == {owner, "Alice"}
Amounts == {-1, 0, 6, 11}

\* Recipients typed by a user who names the identifiers that the tamper
\* operation writes.
Names == {"Hacker", "Evil"}

\* Time that passes before a call of the mine_block of the class.
Waits == {5, 10}

\* Numbers of blocks the owner mined before the run that is explored.
CheckpointBlocks == {0, 8, 18, 28, 99}

\* The field of a block of data/blockchain.json that was edited by hand.
Edits == {"none", "previous_hash", "proof", "transactions"}

\* The proof field of the first block of a file: that of genesis_block, or
\* another number.
GenesisProofs == {100, 7}

\* Values returned by time(), in quarters of a second.
Times == {5}

VARIABLES
    genesis_block,      \* module-level Block built when the program starts
    blockchain,         \* list of Block
    open_transactions,  \* list of Transaction
    participants,       \* set of identifiers
    disk,               \* content of data/blockchain.json
    pc,                 \* position in the main program
    op,                 \* the call that was executed last and its arguments
    ret,                \* value returned by the last add_transaction
    restarts,           \* number of times the program was started again
    ever,               \* every transaction ever accepted or mined
    mined_blocks_count, \* Blockchain class: rewarded blocks of each miner
    last_mine_time,     \* Blockchain class: time of the last successful mine
    clock               \* Blockchain class: the time the calls are made at

vars == <<genesis_block, blockchain, open_transactions, participants, disk,
          pc, op, ret, restarts, ever, mined_blocks_count, last_mine_time,
          clock>>

\* The state that only the Blockchain class driven by src/node.py has; the
\* program of src/Blockchain.py never touches it.
class_state == <<mined_blocks_count, last_mine_time, clock>>

\* ------------------------------------------------------------ transaction.py
Transaction(sender, recipient, amount) ==
    [sender |-> sender, recipient |-> recipient, amount |-> amount]

Transaction_to_dict(tx) ==
    [sender |-> tx.sender, recipient |-> tx.recipient, amount |-> tx.amount]

Transaction_from_dict(data) ==
    Transaction(data.sender, data.recipient, data.amount)

\* ------------------------------------------------------------------ block.py
Block(index, previous_hash, transactions, proof, timestamp) ==
    [index |-> index, previous_hash |-> previous_hash,
     transactions |-> transactions, proof |-> proof, time |-> timestamp]

\* Decimal digits of a natural number, most significant first: str(n).
RECURSIVE str(_)
str(n) == IF n < 10 THEN <<n>> ELSE str(n \div 10) \o <<n % 10>>

\* Value of a string of decimal digits: int(s).
RECURSIVE int(_)
int(s) == IF s = <<>> THEN 0 ELSE 10 * int(SubSeq(s, 1, Len(s) - 1)) + s[Len(s)]

\* format(t, '.10f'): whole part, point, decimals rounded half to even.  A
\* quarter count t is t/4 seconds; its decimals .00 .25 .50 .75 print as
\* 0 2 5 8.  The point is byte 17.
format_time(t) == str(t \div 4) \o <<17>> \o <<(<<0, 2, 5, 8>>)[(t % 4) + 1]>>

\* float(s): the float nearest to the decimal string.
float_truncated(s) ==
    LET point == CHOOSE i \in 1..Len(s) : s[i] = 17
    IN  int(SubSeq(s, 1, point - 1)) * 4

float(s) ==
    LET point == CHOOSE i \in 1..Len(s) : s[i] = 17
        whole == int(SubSeq(s, 1, point - 1))
        tenth == s[point + 1]
    IN  whole * 4 + (tenth * 4 + 5) \div 10

Block_to_dict(block) ==
    [index |-> block.index,
     previous_hash |-> block.previous_hash,
     transactions |-> [i \in 1..Len(block.transactions) |->
                          Transaction_to_dict(block.transactions[i])],
     proof |-> block.proof,
     time |-> format_time(block.time)]

Block_from_dict(data) ==
    LET transactions == [i \in 1..Len(data.transactions) |->
                            Transaction_from_dict(data.transactions[i])]
        timestamp == float(data.time)
    IN  Block(data.index, data.previous_hash, transactions, data.proof,
              timestamp)

\* -------------------------------------------------------------- hash_util.py
\* Bytes of the punctuation and of the identifiers.
Ord == ("{" :> 18) @@ ("}" :> 19) @@ ("[" :> 20) @@ ("]" :> 21) @@
       ("," :> 22) @@ ("\"" :> 23) @@
       ("Kdhungel" :> 30) @@ ("Alice" :> 31) @@ ("MINING" :> 32) @@
       ("Hacker" :> 33) @@ ("Evil" :> 34)

\* json.dumps of a transaction dict, keys sorted: amount, recipient, sender.
dumps_tx(d) ==
    <<Ord["{"]>> \o str(d.amount) \o
    <<Ord[","], Ord[d.recipient], Ord[","], Ord[d.sender], Ord["}"]>>

RECURSIVE dumps_items(_)
dumps_items(l) ==
    IF l = <<>> THEN <<>>
    ELSE IF Len(l) = 1 THEN dumps_tx(l[1])
    ELSE dumps_tx(l[1]) \o <<Ord[","]>> \o dumps_items(Tail(l))

\* json.dumps of a list of transaction dicts.
dumps_txs(l) == <<Ord["["]>> \o dumps_items(l) \o <<Ord["]"]>>

\* json.dumps of a block dict, keys sorted: index, previous_hash, proof,
\* time, transactions.
dumps_block(d) ==
    <<Ord["{"]>> \o str(d.index) \o
    <<Ord[","], Ord["\""]>> \o d.previous_hash \o <<Ord["\""], Ord[","]>> \o
    str(d.proof) \o
    <<Ord[","], Ord["\""]>> \o d.time \o <<Ord["\""], Ord[","]>> \o
    dumps_txs(d.transactions) \o <<Ord["}"]>>

\* One lane of the digest: a multiplicative fold of the bytes from left to
\* right, 16 bits wide.  The halves are folded one after the other; the test
\* on left (never negative) only makes TLC evaluate it before going on.
RECURSIVE lane(_, _, _)
lane(s, h, m) ==
    IF s = <<>> THEN h
    ELSE IF Len(s) = 1 THEN ((h + s[1] + 1) * m) % 65536
    ELSE LET k == Len(s) \div 2
             left == lane(SubSeq(s, 1, k), h, m)
         IN  IF left < 0 THEN left ELSE lane(SubSeq(s, k + 1, Len(s)), left, m)

\* The k hexadecimal digits of n, most significant first.
RECURSIVE hex(_, _)
hex(n, k) == IF k = 0 THEN <<>> ELSE hex(n \div 16, k - 1) \o <<n % 16>>

\* hashlib.sha256(string).hexdigest()
hash_string_256(string) ==
    hex(lane(string, 0, 25173), 4) \o hex(lane(string, 0, 13849), 4)

get_hash(block) == hash_string_256(dumps_block(block))

\* ------------------------------------------------------------ verification.py
valid_proof(transactions, last_hash, proof) ==
    LET transactions_dicts == [i \in 1..Len(transactions) |->
                                  Transaction_to_dict(transactions[i])]
        guess == dumps_txs(transactions_dicts) \o last_hash \o str(proof)
        guess_hash == hash_string_256(guess)
    IN  SubSeq(guess_hash, 1, 1) = <<0>>

\* The check of block i+1 (position i of the Python list, i >= 1).
block_ok_link_only(chain, i) ==
    LET block == chain[i + 1]
        previous_block == chain[i]
        computed_prev_hash == get_hash(Block_to_dict(previous_block))
    IN  block.previous_hash = computed_prev_hash

block_ok_proof_only(chain, i) ==
    valid_proof(chain[i + 1].transactions, chain[i + 1].previous_hash,
                chain[i + 1].proof)

block_ok(chain, i) ==
    LET block == chain[i + 1]
        previous_block == chain[i]
        computed_prev_hash == get_hash(Block_to_dict(previous_block))
    IN  /\ block.previous_hash = computed_prev_hash
        /\ valid_proof(block.transactions, block.previous_hash, block.proof)

verify_chain(chain) == \A i \in 1..(Len(chain) - 1) : block_ok(chain, i)


\* ---------------------------------------------------------------- Blockchain.py
\* total + (sum of tx.amount over the transactions sent by participant).
\* In the four folds the test on next (always an integer) only makes TLC
\* evaluate the new accumulator before going on.
RECURSIVE sent_in(_, _, _)
sent_in(transactions, participant, acc) ==
    IF transactions = <<>> THEN acc
    ELSE LET next == IF Head(transactions).sender = participant
                     THEN acc + Head(transactions).amount ELSE acc
         IN  IF next \in Int
             THEN sent_in(Tail(transactions), participant, next) ELSE next

RECURSIVE received_in(_, _, _)
received_in(transactions, participant, acc) ==
    IF transactions = <<>> THEN acc
    ELSE LET next == IF Head(transactions).recipient = participant
                     THEN acc + Head(transactions).amount ELSE acc
         IN  IF next \in Int
             THEN received_in(Tail(transactions), participant, next)
             ELSE next

RECURSIVE reduce_sent(_, _, _)
reduce_sent(chain, participant, total) ==
    IF chain = <<>> THEN total
    ELSE LET next == total + sent_in(Head(chain).transactions, participant, 0)
         IN  IF next \in Int
             THEN reduce_sent(Tail(chain), participant, next) ELSE next

RECURSIVE reduce_received(_, _, _)
reduce_received(chain, participant, total) ==
    IF chain = <<>> THEN total
    ELSE LET next == total + received_in(Head(chain).transactions,
                                         participant, 0)
         IN  IF next \in Int
             THEN reduce_received(Tail(chain), participant, next) ELSE next

\* calculate_balance_details over a given chain: <<sent, received>>.
calculate_balance_details(chain, participant) ==
    <<reduce_sent(chain, participant, 0),
      reduce_received(chain, participant, 0)>>

balance_on(chain, participant) ==
    LET details == calculate_balance_details(chain, participant)
    IN  details[2] - details[1]

get_balance_received_only(participant) ==
    calculate_balance_details(blockchain, participant)[2]

get_balance_less_pending(participant) ==
    balance_on(blockchain, participant)
        - sent_in(open_transactions, participant, 0)

get_balance(participant) == balance_on(blockchain, participant)

\* Verification.verify_transaction(tx, get_balance): the balance function
\* handed over by both callers is get_balance.
verify_transaction(tx) == get_balance(tx.sender) >= tx.amount

\* Verification.verify_transactions(verify_fn, open_transactions) with
\* verify_fn = lambda tx: verify_transaction(tx, get_balance).
verify_transactions(transactions) ==
    \A i \in 1..Len(transactions) : verify_transaction(transactions[i])

\* The while loop of proof_of_work, entered with the given proof.
RECURSIVE proof_loop(_, _, _)
proof_loop(transactions, last_hash, proof) ==
    IF valid_proof(transactions, last_hash, proof) THEN proof
    ELSE proof_loop(transactions, last_hash, proof + 1)

proof_of_work_second(chain, pool) ==
    LET last_block == chain[Len(chain)]
        last_hash == get_hash(Block_to_dict(last_block))
        transactions == pool \o <<Transaction("MINING", owner, MINING_REWARD)>>
    IN  proof_loop(transactions, last_hash,
                   proof_loop(transactions, last_hash, 0) + 1)

proof_of_work_without_reward(chain, pool) ==
    LET last_block == chain[Len(chain)]
        last_hash == get_hash(Block_to_dict(last_block))
    IN  proof_loop(pool, last_hash, 0)

proof_of_work(chain, pool) ==
    LET last_block == chain[Len(chain)]
        last_hash == get_hash(Block_to_dict(last_block))
        transactions == pool \o <<Transaction("MINING", owner, MINING_REWARD)>>
    IN  proof_loop(transactions, last_hash, 0)

\* The JSON document written by save_data for the given state.
saved(chain, pool, people) ==
    [kind |-> "json",
     data |-> [chain |-> [i \in 1..Len(chain) |-> Block_to_dict(chain[i])],
               open_transactions |-> [i \in 1..Len(pool) |->
                                         Transaction_to_dict(pool[i])],
               participants |-> people]]

\* A file that holds no JSON document: absent, empty, or not parseable.
NoFile(kind) ==
    [kind |-> kind,
     data |-> [chain |-> <<>>, open_transactions |-> <<>>,
               participants |-> {}]]

\* Files that hold JSON the program did not write: an object without the
\* "chain" entry ({} and two partial documents), and a JSON value that is
\* not an object ([]), on which data.get raises AttributeError.
ForeignFiles ==
    {[kind |-> "json", data |-> [k \in {} |-> {}]],
     [kind |-> "json", data |-> [participants |-> {owner, "Alice"}]],
     [kind |-> "json",
      data |-> [open_transactions |-> <<>>, participants |-> {owner}]],
     NoFile("array")}

\* dict.get(key, default)
get(d, key, default) == IF key \in DOMAIN d THEN d[key] ELSE default

\* The state <<blockchain, open_transactions, participants>> left by load_data.
loaded(file, genesis) ==
    IF file.kind = "json"
    THEN LET chain == get(file.data, "chain", <<>>)
             pool == get(file.data, "open_transactions", <<>>)
         IN  <<[i \in 1..Len(chain) |-> Block_from_dict(chain[i])],
               [i \in 1..Len(pool) |-> Transaction_from_dict(pool[i])],
               get(file.data, "participants", {owner})>>
    ELSE <<<<genesis>>, <<>>, {owner}>>

\* The exception of data.get on a value that is not a dict is not among those
\* load_data catches, and load_data() is called outside the try of the main
\* program.
load_data_raises(file) == file.kind = "array"

TamperTransactions == <<Transaction("Hacker", "Evil", 9999)>>

NoArgs(name) == [name |-> name, sender |-> "", recipient |-> "", amount |-> 0]

\* open_transactions.append(transaction)
appended_first(pool, transaction) == <<transaction>> \o pool

appended(pool, transaction) == Append(pool, transaction)

\* The two rejection tests of add_transaction.
amount_rejected_negative(amount) == amount < 0

amount_rejected(amount) == amount <= 0

balance_rejected_never(sender, amount) == FALSE

balance_rejected_with_pending(sender, amount) ==
    get_balance(sender) - sent_in(open_transactions, sender, 0) < amount

balance_rejected(sender, amount) == get_balance(sender) < amount

\* participants.update([recipient, sender])
updated_sender_only(people, recipient, sender) == people \cup {sender}

updated(people, recipient, sender) == people \cup {recipient, sender}

\* open_transactions[:] + [reward_transaction]
block_transactions_reward_first(pool) ==
    <<Transaction("MINING", owner, MINING_REWARD)>> \o pool

block_transactions(pool) ==
    pool \o <<Transaction("MINING", owner, MINING_REWARD)>>

\* len(blockchain), the index given to the block being mined
next_index_one_based(chain) == Len(chain) + 1

next_index(chain) == Len(chain)

\* blockchain.append(block)
chain_replaced_last(chain, block) == [chain EXCEPT ![Len(chain)] = block]

chain_appended(chain, block) == Append(chain, block)

\* blockchain[1].transactions = [Transaction("Hacker", "Evil", 9999)]
tampered_first(chain) == [chain EXCEPT ![1].transactions = TamperTransactions]

tampered(chain) == [chain EXCEPT ![2].transactions = TamperTransactions]

\* --------------------------------------- Blockchain class (driven by node.py)
\* The class Node.listen_for_inputs works on: its file is not among the
\* sources, so mine_block(miner) and the reward rules follow the specification
\* (4.6 Ledger): reward halving, the lifetime reward cap of a miner and the
\* cooldown between two mines.
base_reward == 10
halving_interval == 10
reward_cap == 100
cooldown == 10

\* The amounts of the class ledger count 1/4096 of a coin, so that the halved
\* rewards stay whole numbers.
RewardUnit == 2 ^ 12

\* getDynamicReward(): base_reward / 2 ** (len(chain) // halving_interval)
get_dynamic_reward_fixed(chain) == base_reward * RewardUnit

get_dynamic_reward(chain) ==
    (base_reward * RewardUnit) \div (2 ^ (Len(chain) \div halving_interval))

\* mined_blocks_count.get(miner, 0)
count_of(counts, miner) == get(counts, miner, 0)

\* The reward transaction of the block, or none once the miner hit the cap.
reward_transactions_uncapped(counts, miner, reward) ==
    <<Transaction("MINING", miner, reward)>>

reward_transactions(counts, miner, reward) ==
    IF count_of(counts, miner) >= reward_cap
    THEN <<>>
    ELSE <<Transaction("MINING", miner, reward)>>

\* mined_blocks_count after the mine: one more for a rewarded block.
counted(counts, miner) ==
    IF count_of(counts, miner) >= reward_cap
    THEN counts
    ELSE [m \in DOMAIN counts \cup {miner} |-> 
             IF m = miner THEN count_of(counts, miner) + 1 ELSE counts[m]]

\* The call comes within the cooldown window of the last successful mine.
throttled_never(last, now) == FALSE

throttled(last, now) == now - last < cooldown

\* The block mine_block(miner) assembles at time now: mempool, then the
\* reward transaction if any, proof searched against the last block's hash.
Blockchain_block(chain, pool, counts, miner, now) ==
    LET last_hash == get_hash(Block_to_dict(chain[Len(chain)]))
        transactions ==
            pool \o reward_transactions(counts, miner,
                                        get_dynamic_reward(chain))
    IN  Block(Len(chain), last_hash, transactions,
              proof_loop(transactions, last_hash, 0), now)

\* The document written by the save_data of the class.
Blockchain_saved(chain, pool, people, counts) ==
    [kind |-> "json",
     data |-> [chain |-> [i \in 1..Len(chain) |-> Block_to_dict(chain[i])],
               open_transactions |-> [i \in 1..Len(pool) |->
                                         Transaction_to_dict(pool[i])],
               participants |-> people,
               mined_blocks_count |-> counts]]

\* The chain after the owner mined n more blocks with an empty mempool, the
\* counts going from k to k + n.
RECURSIVE mined_by_owner(_, _, _, _)
mined_by_owner(chain, k, n, now) ==
    IF n = 0 THEN chain
    ELSE LET counts == [m \in {owner} |-> k]
             next == Append(chain,
                            Blockchain_block(chain, <<>>, counts, owner, now))
         IN  IF Len(next) = 0 THEN next
             ELSE mined_by_owner(next, k + 1, n - 1, now)

\* ------------------------------------------------------------------- actions
Init ==
    /\ \E now \in Times : genesis_block = Block(0, <<0>>, <<>>, 100, now)
    /\ blockchain = <<genesis_block>>
    /\ open_transactions = <<>>
    /\ participants = {owner}
    /\ disk \in {NoFile("missing"), NoFile("empty"), NoFile("corrupt")}
    /\ pc = "start"
    /\ op = NoArgs("import")
    /\ ret = FALSE
    /\ restarts = 0
    /\ ever = {}
    /\ mined_blocks_count = <<>>
    /\ last_mine_time = 0
    /\ clock = 0

\* load_data() at the head of the main program.
load_data ==
    /\ UNCHANGED class_state
    /\ pc = "start"
    /\ IF load_data_raises(disk)
       THEN /\ pc' = "halted"
            /\ UNCHANGED <<blockchain, open_transactions, participants>>
       ELSE /\ LET state == loaded(disk, genesis_block)
               IN  /\ blockchain' = state[1]
                   /\ open_transactions' = state[2]
                   /\ participants' = state[3]
            /\ pc' = "loop"
    /\ op' = NoArgs("load_data")
    /\ ret' = FALSE
    /\ UNCHANGED <<genesis_block, disk, restarts, ever>>

\* add_transaction(recipient, sender, amount), called by
\* handle_add_transaction with the values typed by the user.
add_transaction(recipient, sender, amount) ==
    /\ UNCHANGED class_state
    /\ pc = "loop"
    /\ Len(open_transactions) < MaxPool
    /\ op' = [name |-> "add_transaction", sender |-> sender,
              recipient |-> recipient, amount |-> amount]
    /\ IF amount_rejected(amount) \/ balance_rejected(sender, amount)
       THEN /\ ret' = FALSE
            /\ pc' = "check"
            /\ UNCHANGED <<open_transactions, participants, disk, ever>>
       ELSE LET transaction == Transaction(sender, recipient, amount)
            IN  /\ open_transactions' = appended(open_transactions, transaction)
                /\ participants' = updated(participants, recipient, sender)
                /\ disk' = saved(blockchain, open_transactions', participants')
                /\ ever' = ever \cup {transaction}
                /\ ret' = TRUE
                /\ pc' = "recheck"
    /\ UNCHANGED <<genesis_block, blockchain, restarts>>

\* The rest of handle_add_transaction after add_transaction returned True.
recheck ==
    /\ UNCHANGED class_state
    /\ pc = "recheck"
    /\ IF ~verify_transactions(open_transactions)
       THEN open_transactions' =
                SubSeq(open_transactions, 1, Len(open_transactions) - 1)
       ELSE UNCHANGED open_transactions
    /\ pc' = "check"
    /\ op' = NoArgs("recheck")
    /\ UNCHANGED <<genesis_block, blockchain, participants, disk, ret, restarts,
                   ever>>

\* mine_block(), called by handle_mine_block; now is the value of time().
\* On an empty chain get_previous_block() returns None and None.to_dict()
\* raises; the except clause around the main loop ends the program.
mine_block(now) ==
    /\ UNCHANGED class_state
    /\ pc = "loop"
    /\ Len(blockchain) < MaxBlocks
    /\ IF blockchain = <<>>
       THEN /\ pc' = "halted"
            /\ UNCHANGED <<blockchain, open_transactions, disk, ever>>
       ELSE /\ LET last_block == blockchain[Len(blockchain)]
                   hashed_block == get_hash(Block_to_dict(last_block))
                   proof == proof_of_work(blockchain, open_transactions)
                   block == Block(next_index(blockchain), hashed_block,
                                  block_transactions(open_transactions),
                                  proof, now)
               IN  /\ blockchain' = chain_appended(blockchain, block)
                   /\ ever' = ever \cup {block.transactions[i] :
                                             i \in 1..Len(block.transactions)}
            /\ open_transactions' = <<>>
            /\ disk' = saved(blockchain', open_transactions', participants)
            /\ pc' = "check"
    /\ op' = NoArgs("mine_block")
    /\ ret' = FALSE
    /\ UNCHANGED <<genesis_block, participants, restarts>>

handle_tamper_blockchain ==
    /\ UNCHANGED class_state
    /\ pc = "loop"
    /\ IF Len(blockchain) >= 2
       THEN blockchain' = tampered(blockchain)
       ELSE UNCHANGED blockchain
    /\ disk' = saved(blockchain', open_transactions, participants)
    /\ pc' = "check"
    /\ op' = NoArgs("tamper")
    /\ ret' = FALSE
    /\ UNCHANGED <<genesis_block, open_transactions, participants, restarts,
                   ever>>

\* handle_check_balance: get_balance_details(participant) for the name typed;
\* it prints the report and returns whether the participant is known.
handle_check_balance(participant) ==
    /\ UNCHANGED class_state
    /\ pc = "loop"
    /\ op' = [name |-> "get_balance_details", sender |-> participant,
              recipient |-> "", amount |-> 0]
    /\ ret' = (participant \in participants)
    /\ pc' = "check"
    /\ UNCHANGED <<genesis_block, blockchain, open_transactions, participants,
                   disk, restarts, ever>>

\* handle_exit_program: save_data(), then the loop ends.
handle_exit_program ==
    /\ UNCHANGED class_state
    /\ pc = "loop"
    /\ disk' = saved(blockchain, open_transactions, participants)
    /\ pc' = "halted"
    /\ op' = NoArgs("save_data")
    /\ ret' = FALSE
    /\ UNCHANGED <<genesis_block, blockchain, open_transactions, participants,
                   restarts, ever>>

\* The integrity check that ends every turn of the main loop.
integrity_check ==
    /\ UNCHANGED class_state
    /\ pc = "check"
    /\ pc' = IF verify_chain(blockchain) THEN "loop" ELSE "halted"
    /\ op' = NoArgs("verify_chain")
    /\ ret' = FALSE
    /\ UNCHANGED <<genesis_block, blockchain, open_transactions, participants,
                   disk, restarts, ever>>

\* The program is started again: the module-level statements run anew; now
\* is the value of time() when the genesis block is built.
restart(now) ==
    /\ UNCHANGED class_state
    /\ pc \in {"loop", "halted"}
    /\ restarts < MaxRestarts
    /\ restarts' = restarts + 1
    /\ genesis_block' = Block(0, <<0>>, <<>>, 100, now)
    /\ blockchain' = <<genesis_block'>>
    /\ open_transactions' = <<>>
    /\ participants' = {owner}
    /\ pc' = "start"
    /\ op' = NoArgs("import")
    /\ ret' = FALSE
    /\ UNCHANGED <<disk, ever>>

Next ==
    \/ load_data
    \/ \E sender \in Users :
          \E recipient \in Users \ {sender}, amount \in Amounts :
              add_transaction(recipient, sender, amount)
    \/ recheck
    \/ \E now \in Times : mine_block(now)
    \/ handle_tamper_blockchain
    \/ handle_exit_program
    \/ integrity_check
    \/ \E now \in Times : restart(now)

Spec == Init /\ [][Next]_vars

\* The program started on a file it did not write, or on no file.
InitLoad ==
    /\ \E now \in Times : genesis_block = Block(0, <<0>>, <<>>, 100, now)
    /\ blockchain = <<genesis_block>>
    /\ open_transactions = <<>>
    /\ participants = {owner}
    /\ disk \in ForeignFiles \cup {NoFile("missing")}
    /\ pc = "start"
    /\ op = NoArgs("import")
    /\ ret = FALSE
    /\ restarts = 0
    /\ ever = {}
    /\ mined_blocks_count = <<>>
    /\ last_mine_time = 0
    /\ clock = 0

SpecLoad == InitLoad /\ [][Next]_vars

\* Blockchain.mine_block(miner), called by Node.handle_mine_block when wait
\* time units have passed since the call before.
Blockchain_mine_block(miner, wait) ==
    /\ pc = "loop"
    /\ clock + wait <= MaxClock
    /\ clock' = clock + wait
    /\ op' = [name |-> "Blockchain.mine_block", sender |-> miner,
              recipient |-> "", amount |-> 0]
    /\ pc' = "check"
    /\ IF throttled(last_mine_time, clock')
       THEN /\ ret' = FALSE
            /\ UNCHANGED <<blockchain, open_transactions, disk, ever,
                           mined_blocks_count, last_mine_time>>
       ELSE LET block == Blockchain_block(blockchain, open_transactions,
                                          mined_blocks_count, miner, clock')
            IN  /\ blockchain' = Append(blockchain, block)
                /\ mined_blocks_count' = counted(mined_blocks_count, miner)
                /\ open_transactions' = <<>>
                /\ last_mine_time' = clock'
                /\ disk' = Blockchain_saved(blockchain', open_transactions',
                                            participants, mined_blocks_count')
                /\ ever' = ever \cup {block.transactions[i] :
                                          i \in 1..Len(block.transactions)}
                /\ ret' = TRUE
    /\ UNCHANGED <<genesis_block, participants, restarts>>

\* A run of the class ledger restored after the owner mined n blocks.
InitClass ==
    \E n \in CheckpointBlocks, now \in Times :
        /\ genesis_block = Block(0, <<0>>, <<>>, 100, now)
        /\ blockchain = mined_by_owner(<<genesis_block>>, 0, n, now)
        /\ open_transactions = <<>>
        /\ participants = {owner}
        /\ mined_blocks_count =
               IF n = 0 THEN <<>> ELSE [m \in {owner} |-> n]
        /\ disk = Blockchain_saved(blockchain, open_transactions,
                                   participants, mined_blocks_count)
        /\ pc = "loop"
        /\ op = NoArgs("load_data")
        /\ ret = FALSE
        /\ restarts = 0
        /\ ever = {}
        /\ last_mine_time = 0
        /\ clock = cooldown

NextClass ==
    \/ add_transaction("Alice", owner, 6)
    \/ recheck
    \/ \E miner \in Users, wait \in Waits : Blockchain_mine_block(miner, wait)
    \/ integrity_check

SpecClass == InitClass /\ [][NextClass]_vars

\* The same program with the owner sending to a recipient drawn from Names,
\* and with the balance report of handle_check_balance.
NextNames ==
    \/ load_data
    \/ \E recipient \in Names, amount \in {0, 6} :
          add_transaction(recipient, owner, amount)
    \/ recheck
    \/ \E now \in Times : mine_block(now)
    \/ handle_tamper_blockchain
    \/ \E participant \in Names : handle_check_balance(participant)
    \/ handle_exit_program
    \/ integrity_check
    \/ \E now \in Times : restart(now)

SpecNames == Init /\ [][NextNames]_vars

\* The chain after n calls of mine_block() with an empty mempool.
RECURSIVE mined(_, _, _)
mined(chain, n, now) ==
    IF n = 0 THEN chain
    ELSE LET last_block == chain[Len(chain)]
             block == Block(next_index(chain),
                            get_hash(Block_to_dict(last_block)),
                            block_transactions(<<>>),
                            proof_of_work(chain, <<>>), now)
         IN  mined(chain_appended(chain, block), n - 1, now)

\* A block of data/blockchain.json after one of its fields was edited.
edited(block, e) ==
    CASE e = "none" -> block
      [] e = "previous_hash" ->
             [block EXCEPT !.previous_hash = get_hash(Block_to_dict(block))]
      [] e = "proof" -> [block EXCEPT !.proof = block.proof + 1]
      [] e = "transactions" ->
             [block EXCEPT !.transactions = TamperTransactions]

\* handle_verify_chain: menu choice 8, verify_chain(blockchain) and a message.
handle_verify_chain ==
    /\ UNCHANGED class_state
    /\ pc = "loop"
    /\ ret' = verify_chain(blockchain)
    /\ op' = NoArgs("handle_verify_chain")
    /\ pc' = "check"
    /\ UNCHANGED <<genesis_block, blockchain, open_transactions, participants,
                   disk, restarts, ever>>

\* The program started on a file that holds a chain of up to three blocks
\* mined by the program, with any field of any block edited afterwards.
InitVerify ==
    \E now \in Times, proof \in GenesisProofs, n \in 0..(MaxBlocks - 1) :
        \E e \in [1..(n + 1) -> Edits] :
            LET chain == mined(<<Block(0, <<0>>, <<>>, proof, now)>>, n, now)
                file == [i \in 1..(n + 1) |-> edited(chain[i], e[i])]
            IN  /\ genesis_block = Block(0, <<0>>, <<>>, 100, now)
                /\ blockchain = <<genesis_block>>
                /\ open_transactions = <<>>
                /\ participants = {owner}
                /\ disk = saved(file, <<>>, {owner})
                /\ pc = "start"
                /\ op = NoArgs("import")
                /\ ret = FALSE
                /\ restarts = 0
                /\ ever = {}
                /\ mined_blocks_count = <<>>
                /\ last_mine_time = 0
                /\ clock = 0

NextVerify ==
    \/ load_data
    \/ handle_verify_chain
    \/ integrity_check

SpecVerify == InitVerify /\ [][NextVerify]_vars

\* ----------------------------------------------------------------- properties
\* Every identifier that can occur in a transaction.
Everyone == Users \cup {"MINING", "Hacker", "Evil"}

\* Block 1 holds the transaction list written by the tamper operation.
IsTampered(chain) ==
    Len(chain) >= 2 /\ chain[2].transactions = TamperTransactions

\* The step being taken is a call of add_transaction / mine_block / tamper.
AddStep == pc = "loop" /\ op'.name = "add_transaction"

MineStep == pc = "loop" /\ op'.name = "mine_block"

\* C1: a chain built by add_transaction and mine_block only (no tamper)
\* passes verify_chain: every non-genesis block's previous_hash is the hash
\* of the block before it and its proof is valid for its own transactions
\* and previous_hash.
C1_MinedChainValid ==
    ~IsTampered(blockchain) =>
        /\ verify_chain(blockchain)
        /\ \A i \in 2..Len(blockchain) :
              /\ blockchain[i].previous_hash =
                     get_hash(Block_to_dict(blockchain[i - 1]))
              /\ valid_proof(blockchain[i].transactions,
                             blockchain[i].previous_hash, blockchain[i].proof)

C1_Witness ==
    /\ op.name = "mine_block"
    /\ Len(blockchain) >= 3
    /\ Len(blockchain[3].transactions) >= 2
    /\ ~IsTampered(blockchain)

\* C2: right after the tamper operation on a chain of two or more blocks
\* verify_chain returns False, for exactly two blocks as for more.
C2_TamperDetected ==
    (op.name = "tamper" /\ Len(blockchain) >= 2) => ~verify_chain(blockchain)

C2_Witness ==
    op.name = "tamper" /\ Len(blockchain) = 2 /\ ~verify_chain(blockchain)

\* C3: add_transaction with an amount above the sender's balance returns
\* False and leaves mempool, chain and participants unchanged.
C3_Unaffordable ==
    [][(AddStep /\ op'.amount > get_balance(op'.sender)) =>
          /\ ret' = FALSE
          /\ UNCHANGED <<open_transactions, blockchain, participants>>]_vars

C3_Witness ==
    /\ op.name = "add_transaction"
    /\ op.amount > get_balance(op.sender)
    /\ get_balance(op.sender) > 0
    /\ open_transactions # <<>>
    /\ ~ret

\* C4: add_transaction with amount <= 0 returns False without side effect,
\* whatever the sender's balance, so every mempool transaction has a
\* strictly positive amount.
C4_NonPositive ==
    /\ [][(AddStep /\ op'.amount <= 0) =>
             /\ ret' = FALSE
             /\ UNCHANGED <<open_transactions, blockchain, participants,
                            disk>>]_vars
    /\ [](\A i \in 1..Len(open_transactions) :
              open_transactions[i].amount > 0)

C4_Witness ==
    /\ op.name = "add_transaction"
    /\ op.amount = 0
    /\ get_balance(op.sender) > 0
    /\ ~ret

\* C5: a successful add_transaction returns True, appends exactly the
\* transaction (sender, recipient, amount) at the end of the mempool,
\* adds sender and recipient to participants and leaves the chain unchanged.
C5_Accepted ==
    [][(AddStep /\ op'.amount > 0 /\ get_balance(op'.sender) >= op'.amount) =>
          /\ ret' = TRUE
          /\ Len(open_transactions') = Len(open_transactions) + 1
          /\ SubSeq(open_transactions', 1, Len(open_transactions)) =
                 open_transactions
          /\ open_transactions'[Len(open_transactions')] =
                 [sender |-> op'.sender, recipient |-> op'.recipient,
                  amount |-> op'.amount]
          /\ participants' = participants \cup {op'.sender, op'.recipient}
          /\ blockchain' = blockchain]_vars

C5_Witness ==
    /\ op.name = "add_transaction"
    /\ ret
    /\ Len(open_transactions) >= 2
    /\ open_transactions[1] # open_transactions[2]

\* C6: mine_block appends exactly one block; its transactions are the
\* mempool in mempool order followed by the reward (MINING -> miner), its
\* previous_hash is the hash of the block that was last, and the mempool is
\* empty afterwards; with an empty mempool the block holds the reward only.
C6_MinedBlock ==
    [][MineStep =>
          LET block == blockchain'[Len(blockchain')]
              reward == [sender |-> "MINING", recipient |-> owner,
                         amount |-> MINING_REWARD]
          IN  /\ Len(blockchain') = Len(blockchain) + 1
              /\ SubSeq(blockchain', 1, Len(blockchain)) = blockchain
              /\ Len(block.transactions) = Len(open_transactions) + 1
              /\ SubSeq(block.transactions, 1, Len(open_transactions)) =
                     open_transactions
              /\ block.transactions[Len(block.transactions)] = reward
              /\ block.previous_hash =
                     get_hash(Block_to_dict(blockchain[Len(blockchain)]))
              /\ open_transactions' = <<>>]_vars

C6_Witness ==
    /\ op.name = "mine_block"
    /\ open_transactions = <<>>
    /\ LET block == blockchain[Len(blockchain)]
       IN  /\ Len(block.transactions) = 3
           /\ block.transactions[1].sender = owner
           /\ block.transactions[3].sender = "MINING"

\* The positions <<block, transaction>> of a chain, and the sum of the
\* amounts at a set of positions.
Positions(chain) ==
    UNION {{<<i, j>> : j \in 1..Len(chain[i].transactions)} :
               i \in 1..Len(chain)}

RECURSIVE AmountSum(_, _)
AmountSum(chain, P) ==
    IF P = {} THEN 0
    ELSE LET x == CHOOSE y \in P : TRUE
         IN  chain[x[1]].transactions[x[2]].amount + AmountSum(chain, P \ {x})

Received(chain, p) ==
    AmountSum(chain, {x \in Positions(chain) :
                          chain[x[1]].transactions[x[2]].recipient = p})

Sent(chain, p) ==
    AmountSum(chain, {x \in Positions(chain) :
                          chain[x[1]].transactions[x[2]].sender = p})

\* C7: get_balance(p) is the amount received minus the amount sent by p
\* over every transaction of every block; the mempool does not count, and a
\* successful add_transaction changes nobody's balance.
C7_Balance ==
    /\ [](\A p \in Everyone :
              get_balance(p) = Received(blockchain, p) - Sent(blockchain, p))
    /\ [][(AddStep /\ ret') =>
              \A p \in Everyone : get_balance(p)' = get_balance(p)]_vars

C7_Witness ==
    /\ op.name = "add_transaction"
    /\ ret
    /\ Len(blockchain) >= 3
    /\ get_balance(op.sender) >= op.amount
    /\ Sent(blockchain, op.sender) > 0
    /\ Received(blockchain, op.sender) > Sent(blockchain, op.sender)

\* C8, as claimed: after every mutating operation, tamper included, every
\* mempool transaction is affordable from the sender's chain balance.
C8_Original ==
    \A i \in 1..Len(open_transactions) :
        open_transactions[i].amount <= get_balance(open_transactions[i].sender)

\* C8, amended: the same, as long as block 1 was not overwritten by the
\* tamper operation.
C8_AffordableUnlessTampered ==
    ~IsTampered(blockchain) => C8_Original

C8_Witness ==
    /\ ~IsTampered(blockchain)
    /\ op.name = "load_data"
    /\ Len(blockchain) >= 2
    /\ Len(open_transactions) >= 2
    /\ open_transactions[1].sender # open_transactions[2].sender

C10_Genesis ==
    /\ Len(blockchain) >= 1
    /\ blockchain[1].index = 0
    /\ blockchain[1].previous_hash = <<0>>
    /\ blockchain[1].transactions = <<>>

C10_Witness ==
    /\ op.name = "load_data"
    /\ IsTampered(blockchain)
    /\ Len(blockchain) >= 3
    /\ C10_Genesis

\* C11: the chain is append-only.  add_transaction (with its re-check),
\* get_balance_details, verify_chain and save_data leave the chain as it
\* was; mine_block appends exactly one block and leaves the existing blocks
\* as they were; within a run of the program the chain never gets shorter,
\* and the only operation after start-up that changes an existing block is
\* tamper.
C11_AppendOnly ==
    [][/\ op'.name \in {"add_transaction", "recheck", "get_balance_details",
                        "verify_chain", "save_data"} =>
              blockchain' = blockchain
       /\ MineStep =>
              /\ Len(blockchain') = Len(blockchain) + 1
              /\ SubSeq(blockchain', 1, Len(blockchain)) = blockchain
       /\ op'.name # "import" => Len(blockchain') >= Len(blockchain)
       /\ (/\ op'.name \notin {"import", "load_data"}
           /\ \E i \in 1..Len(blockchain) :
                  i <= Len(blockchain') /\ blockchain'[i] # blockchain[i]) =>
              op'.name = "tamper"]_vars

C11_Witness ==
    /\ op.name = "mine_block"
    /\ Len(blockchain) = 3
    /\ Len(blockchain[3].transactions) = 3
    /\ restarts = 1

\* C12: in every reachable state the block at position k of the chain
\* (counted from 0) has index k.
C12_IndexIsPosition ==
    \A k \in 1..Len(blockchain) : blockchain[k].index = k - 1

C12_Witness ==
    /\ op.name = "tamper"
    /\ restarts = 1
    /\ Len(blockchain) = 3
    /\ IsTampered(blockchain)
    /\ blockchain[3].index = 2

\* C13: once the chain fails verify_chain the program executes no further
\* mutating operation (add_transaction, mine_block, tamper) on it, also when
\* the tampered chain was saved and is restored by load_data at the next
\* start-up: every such operation is dispatched on a chain that verifies.
C13_NoOperationOnTamperedChain ==
    [][(pc = "loop" /\ op'.name \in {"add_transaction", "mine_block", "tamper"})
          => verify_chain(blockchain)]_vars

\* The step calls save_data: add_transaction when it accepts, mine_block,
\* tamper and exit.
SaveStep ==
    \/ op'.name \in {"mine_block", "tamper", "save_data"}
    \/ op'.name = "add_transaction" /\ ret'

\* C14: save_data followed by load_data on a chain of three or more blocks
\* built by add_transaction and mine_block restores the chain (same length,
\* every block with the digest it had), the mempool and the participants
\* unchanged; the restored chain still passes verify_chain and every
\* balance is what it was.  The timestamp conversion of to_dict/from_dict
\* gives back every timestamp up to MaxTimestamp.
C14_RoundTrip ==
    [][(SaveStep /\ Len(blockchain') >= 3 /\ ~IsTampered(blockchain')) =>
          LET state == loaded(disk', genesis_block)
          IN  /\ \A t \in 0..MaxTimestamp : float(format_time(t)) = t
              /\ Len(state[1]) = Len(blockchain')
              /\ \A i \in 1..Len(blockchain') :
                     /\ state[1][i] = blockchain'[i]
                     /\ get_hash(Block_to_dict(state[1][i])) =
                            get_hash(Block_to_dict(blockchain'[i]))
              /\ verify_chain(state[1])
              /\ \A p \in Everyone :
                     balance_on(state[1], p) = balance_on(blockchain', p)
              /\ state[2] = open_transactions'
              /\ state[3] = participants']_vars

C14_Witness ==
    /\ op.name = "load_data"
    /\ restarts = 1
    /\ Len(blockchain) = 3
    /\ ~IsTampered(blockchain)
    /\ Len(open_transactions) = 2
    /\ open_transactions[1].sender # open_transactions[2].sender
    /\ participants = Users
    /\ disk = saved(blockchain, open_transactions, participants)

\* The file holds nothing load_data can restore a ledger from: it is absent,
\* empty or unparseable, or its JSON has no "chain" entry.
Unusable(file) == file.kind # "json" \/ "chain" \notin DOMAIN file.data

\* C15: load_data on missing, empty or corrupt persisted data, persisted
\* data that parses but lacks the expected content included, does not fail
\* and leaves the genesis-only state: chain = [genesis block], mempool
\* empty, participants = {owner}.
C15_FallsBackToGenesis ==
    (op.name = "load_data" /\ Unusable(disk)) =>
        /\ pc = "loop"
        /\ blockchain = <<genesis_block>>
        /\ open_transactions = <<>>
        /\ participants = {owner}

\* C16: the proof mine_block stores is the one the search returns; it is
\* valid for the block's transactions and previous_hash, and no smaller
\* non-negative integer is: the search starts at 0 and goes up by 1, so it
\* ends at the least valid proof.
C16_LeastProof ==
    [][MineStep =>
          LET block == blockchain'[Len(blockchain')]
          IN  /\ block.proof = proof_of_work(blockchain, open_transactions)
              /\ block.proof >= 0
              /\ valid_proof(block.transactions, block.previous_hash,
                             block.proof)
              /\ \A p \in 0..(block.proof - 1) :
                     ~valid_proof(block.transactions, block.previous_hash, p)
      ]_vars

C16_Witness ==
    /\ op.name = "mine_block"
    /\ LET block == blockchain[Len(blockchain)]
       IN  /\ block.proof >= 3
           /\ Len(block.transactions) >= 2
           /\ ~valid_proof(block.transactions, block.previous_hash, 0)
           /\ valid_proof(block.transactions, block.previous_hash, block.proof)

\* The sum of the amounts of the mempool transactions sent by p.
Pending(p) == sent_in(open_transactions, p, 0)

\* C17: add_transaction decides on the amount and the sender's confirmed
\* chain balance alone, whatever the sender already has pending; so the
\* mempool can hold several accepted transactions of one sender, each within
\* the balance, whose sum exceeds it (the witness).
C17_ChainBalanceOnly ==
    [][AddStep =>
          ret' = (op'.amount > 0 /\ op'.amount <= get_balance(op'.sender))]_vars

C17_Witness ==
    /\ pc = "loop"
    /\ Len(open_transactions) >= 2
    /\ \E p \in Users :
          /\ \A i \in 1..Len(open_transactions) :
                 /\ open_transactions[i].sender = p
                 /\ open_transactions[i].amount <= get_balance(p)
          /\ Pending(p) > get_balance(p)

\* The sum of get_balance(p) over the identifiers p of a set.
RECURSIVE BalanceSum(_)
BalanceSum(P) ==
    IF P = {} THEN 0
    ELSE LET p == CHOOSE q \in P : TRUE
         IN  get_balance(p) + BalanceSum(P \ {p})

\* The senders and recipients of the transactions of a chain.
Parties(chain) ==
    UNION {{chain[x[1]].transactions[x[2]].sender,
            chain[x[1]].transactions[x[2]].recipient} : x \in Positions(chain)}

\* No block of the chain holds a mining-reward transaction.
TransfersOnly(chain) ==
    \A x \in Positions(chain) : chain[x[1]].transactions[x[2]].sender # "MINING"

ClassMineStep == pc = "loop" /\ op'.name = "Blockchain.mine_block" /\ ret'

\* The number of blocks of the chain that pay a reward to the miner.
Rewarded(chain, miner) ==
    Cardinality({i \in 1..Len(chain) :
                    \E j \in 1..Len(chain[i].transactions) :
                        /\ chain[i].transactions[j].sender = "MINING"
                        /\ chain[i].transactions[j].recipient = miner})

ClassCallStep == pc = "loop" /\ op'.name = "Blockchain.mine_block"

Linked(chain, i) ==
    chain[i + 1].previous_hash = get_hash(Block_to_dict(chain[i]))

\* Block i (counted from 0) carries a valid proof of work.
Proven(chain, i) ==
    valid_proof(chain[i + 1].transactions, chain[i + 1].previous_hash,
                chain[i + 1].proof)

\* C22: verify_chain(chain) is True exactly when every block at a position
\* i >= 1 points at the digest of block i - 1 and carries a valid proof; the
\* previous_hash and proof of the first block are not looked at, so a chain
\* of one block always passes; the call leaves the chain as it was, and the
\* check at the end of the loop turn decides the same way.
C22_VerifyChain ==
    [][/\ (pc = "loop" /\ op'.name = "handle_verify_chain") =>
              /\ ret' = (\A i \in 1..(Len(blockchain) - 1) :
                             Linked(blockchain, i) /\ Proven(blockchain, i))
              /\ Len(blockchain) = 1 => ret'
              /\ blockchain' = blockchain
       /\ pc = "check" =>
              /\ (pc' = "loop") =
                     (\A i \in 1..(Len(blockchain) - 1) :
                         Linked(blockchain, i) /\ Proven(blockchain, i))
              /\ blockchain' = blockchain]_vars

C22_Witness ==
    /\ op.name = "handle_verify_chain"
    /\ ~ret
    /\ Len(blockchain) = 3
    /\ \A i \in 1..2 : Proven(blockchain, i)
    /\ ~Linked(blockchain, 1)
    /\ Linked(blockchain, 2)

\* C23: when the add-transaction handler has completed (add_transaction
\* accepted, then the re-check of the whole mempool, then the removal when
\* the re-check failed), every transaction left in the mempool is affordable
\* on the chain, and a removal takes out a transaction that failed the
\* re-check.
C23_MempoolAffordableAfterHandler ==
    [][pc = "recheck" =>
          /\ \A i \in 1..Len(open_transactions') :
                 balance_on(blockchain', open_transactions'[i].sender) >=
                     open_transactions'[i].amount
          /\ open_transactions' # open_transactions =>
                 ~verify_transaction(
                      open_transactions[Len(open_transactions)])]_vars

\* C24: when a mutating handler has completed (add transaction with its
\* re-check and removal, mine block, tamper), the file last written by
\* save_data holds the chain, the mempool and the participants of the
\* program, and load_data on that file restores exactly them.
C24_SavedStateIsMemory ==
    (pc = "check" /\ op.name \in {"recheck", "mine_block", "tamper"}) =>
        /\ disk = saved(blockchain, open_transactions, participants)
        /\ loaded(disk, genesis_block) =
               <<blockchain, open_transactions, participants>>

\* C25: while the chain holds only the genesis block every identifier has
\* balance 0, every add_transaction is refused and the mempool is empty.
C25_EmptyMempoolOnGenesis ==
    Len(blockchain) = 1 =>
        /\ open_transactions = <<>>
        /\ \A p \in Everyone : get_balance(p) = 0
        /\ op.name = "add_transaction" => ~ret

C25_Witness ==
    /\ Len(blockchain) = 1
    /\ blockchain[1].transactions = <<>>
    /\ op.name = "add_transaction"
    /\ op.amount = 6
    /\ ~ret
    /\ open_transactions = <<>>

====
